---- MODULE Spec2Model ----
(***************************************************************************)
(* A model of CircularBuffer (src/src/circular_buffer.rs): a growable ring *)
(* buffer of bytes with a hard capacity ceiling, a read cursor             *)
(* (position, length) and a soft-limit shrink policy.                      *)
(*                                                                         *)
(* The buffer is the record Self; every method of the source is an         *)
(* operator from a buffer record to an outcome record                      *)
(*   [self |-> the buffer afterwards, panic |-> whether the call panicked, *)
(*    ...the method's return value]                                        *)
(* and every public operation is one action.  A panic (a failed assert!,   *)
(* an out-of-range slice, a remainder by zero) is fatal: the variable      *)
(* panicked becomes TRUE and no further call is made.                      *)
(*                                                                         *)
(* The bytes handed to the writer are the consecutive elements of one      *)
(* stream, 1, 2, .., period, 1, 2, ..: a byte that is lost, duplicated,    *)
(* reordered or stale is then visible in the content.  0 is the zero fill  *)
(* of fresh storage.  The variables op, arg, ret and pre record the last   *)
(* call, fifo and nextByte the stream written so far.                      *)
(*                                                                         *)
(* Spec has the calls of the read and of the write side; SpecFifo those    *)
(* that keep the content a queue; SpecCursor and SpecPeek have             *)
(* read_cursor / set_read_cursor, which restore a cursor unchecked;        *)
(* SpecResize calls resize_buffer directly; SpecBurst writes inputs longer *)
(* than one growth step gains; SpecDrain stops the writer and lets the     *)
(* reader drain the buffer.                                                *)
(***************************************************************************)
EXTENDS Integers, Sequences

\* ---------------------------------------------------------------- bounds
MaxIn == 3        \* longest input / output slice and largest count passed
MaxLimit == 9     \* largest soft limit passed to apply_soft_limit

\* the buffers created: capacity and max_capacity given to new, and the
\* period of the byte stream written to that buffer (period 0: the writer
\* writes zero bytes, which keeps the 16-byte storage to its structure;
\* period 1: the bytes written differ from the zeros of a fresh storage)
NewArgs == {<<0, 16, 0>>, <<0, 0, 0>>, <<3, 5, 1>>, <<9, 9, 0>>,
            <<3, 2, 1>>}

\* the same buffers where the order of the content is decided: the stream
\* written to the buffer that wraps has period 2
FifoArgs == {<<0, 16, 0>>, <<0, 0, 0>>, <<3, 5, 2>>, <<9, 9, 0>>,
             <<3, 2, 1>>}

\* ------------------------------------------------------ program constant
MINIMUM_NON_EMPTY_CAPACITY == 8

VARIABLES
    buffer,            \* Box<[u8]>: the storage, a sequence of bytes
    position,          \* start of the unread data
    length,            \* number of unread bytes
    max_capacity,      \* hard ceiling
    initial_capacity,  \* clamped capacity given to new
    panicked,          \* the last call panicked (fatal)
    op,                \* name of the last call
    arg,               \* its argument (slice length, count or limit)
    ret,               \* its return value: [count |-> .., out |-> ..]
    pre,               \* capacity, position and length before the last call
    fifo,              \* ghost: bytes accepted by writes and not yet read
    nextByte,          \* ghost: index (mod period) of the next stream byte
    period,            \* ghost: period of the byte stream of this buffer
    snap,              \* the cursor the caller holds from read_cursor()
    overflow_checks,   \* the build panics on integer overflow (debug build)
    draining           \* the writer has stopped: only read_into is called

vars == <<buffer, position, length, max_capacity, initial_capacity,
          panicked, op, arg, ret, pre, fifo, nextByte, period,
          snap, overflow_checks, draining>>

Min(a, b) == IF a <= b THEN a ELSE b
Max(a, b) == IF a >= b THEN a ELSE b

Zeros(n) == [i \in 1..n |-> 0]

\* the n bytes of the stream that start at stream index k
Stream(k, n) ==
    [i \in 1..n |-> IF period = 0 THEN 0 ELSE ((k + i - 1) % period) + 1]

\* the stream index k advanced by n bytes
NextIndex(k, n) == IF period = 0 THEN 0 ELSE (k + n) % period

\* s without its first n elements
Drop(s, n) == SubSeq(s, n + 1, Len(s))

Self == [buffer |-> buffer, position |-> position, length |-> length,
         max_capacity |-> max_capacity, initial_capacity |-> initial_capacity]

Ok(s) == [self |-> s, panic |-> FALSE]
Panic(s) == [self |-> s, panic |-> TRUE]

NoRet == [count |-> 0, out |-> <<>>]

\* no cursor saved yet
NoSnap == [taken |-> FALSE, cursor |-> <<0, 0>>, contents |-> <<>>,
           clean |-> FALSE]

\* ------------------------------------------------------------ the methods
new(capacity, max_cap) ==
    LET c == Min(capacity, max_cap)
    IN  [buffer |-> Zeros(c), position |-> 0, length |-> 0,
         max_capacity |-> max_cap, initial_capacity |-> c]

is_empty(s) == s.length = 0

current_capacity(s) == Len(s.buffer)

remaining(s) == s.length

remaining_mut(s) == s.max_capacity - s.length

remaining_mut_without_realloc(s) == current_capacity(s) - s.length

\* a relocation that copies the piece up to the end of the storage only
relocate_first_piece(s, new_capacity) ==
    LET cap == current_capacity(s)
        alen == cap - s.position
    IN  [i \in 1..new_capacity |->
            IF s.length > 0 /\ i <= s.length /\ i <= alen
            THEN s.buffer[s.position + i]
            ELSE 0]

\* the storage resize_buffer allocates: zero filled, the unread data copied
\* to its front, in one piece or in the two pieces of a wraparound
relocate(s, new_capacity) ==
    LET cap == current_capacity(s)
        alen == cap - s.position
    IN  [i \in 1..new_capacity |->
            IF s.length > 0 /\ i <= s.length
            THEN IF s.position + s.length <= cap
                 THEN s.buffer[s.position + i]
                 ELSE IF i <= alen
                      THEN s.buffer[s.position + i]
                      ELSE s.buffer[i - alen]
            ELSE 0]

\* the slices resize_buffer copies from are out of range: a position past
\* the end of the storage (a cursor restored after a shrink), whose range
\* position..current_capacity() is reversed, or a second piece longer than
\* the storage
resize_panics(s) ==
    /\ s.length > 0
    /\ s.position + s.length > current_capacity(s)
    /\ \/ s.position > current_capacity(s)
       \/ s.length - (current_capacity(s) - s.position) > current_capacity(s)

\* a resize that relocates the data and leaves the position where it was
resize_buffer_keeps_position(s, new_capacity) ==
    IF new_capacity = current_capacity(s) THEN Ok(s)
    ELSE IF ~(new_capacity >= s.length) THEN Panic(s)
    ELSE Ok([s EXCEPT !.buffer = relocate(s, new_capacity)])

resize_buffer(s, new_capacity) ==
    IF new_capacity = current_capacity(s) THEN Ok(s)
    ELSE IF ~(new_capacity >= s.length) THEN Panic(s)
    ELSE IF resize_panics(s) THEN Panic(s)
    ELSE Ok([s EXCEPT !.buffer = relocate(s, new_capacity),
                      !.position = 0])

\* a growth that is not clamped to max_capacity
grow_capacity_unclamped(s) ==
    Max(current_capacity(s) * 2,
        Max(MINIMUM_NON_EMPTY_CAPACITY, s.initial_capacity))

\* a growth whose floor forgets initial_capacity
grow_capacity_fixed_floor(s) ==
    Min(s.max_capacity,
        Max(current_capacity(s) * 2, MINIMUM_NON_EMPTY_CAPACITY))

\* the new_capacity grow_buffer computes
grow_capacity(s) ==
    Min(s.max_capacity,
        Max(current_capacity(s) * 2,
            Max(MINIMUM_NON_EMPTY_CAPACITY, s.initial_capacity)))

\* a growth that never refuses: at the ceiling it resizes to the capacity
\* the storage already has and reports that it grew
grow_buffer_no_refusal(s) ==
    LET r == resize_buffer(s, grow_capacity(s))
    IN  [self |-> r.self, panic |-> r.panic, grown |-> TRUE]

\* outcome with grown: the boolean grow_buffer returns
grow_buffer(s) ==
    IF remaining_mut(s) = 0
    THEN [self |-> s, panic |-> FALSE, grown |-> FALSE]
    ELSE LET r == resize_buffer(s, grow_capacity(s))
         IN  [self |-> r.self, panic |-> r.panic, grown |-> TRUE]

\* current_capacity() - length is below zero (a cursor restored after a
\* shrink): the usize subtraction of remaining_mut_without_realloc panics
\* in a build with overflow checks and wraps to a huge value in one without
sub_overflows(s) == current_capacity(s) < s.length

advance_mut_impl(s, count) ==
    IF ~(count <= remaining_mut(s)) THEN Panic(s)
    ELSE IF sub_overflows(s)
    THEN IF overflow_checks THEN Panic(s)
         ELSE Ok([s EXCEPT !.length = s.length + count])  \* count <= huge
    ELSE IF ~(count <= remaining_mut_without_realloc(s)) THEN Panic(s)
    ELSE Ok([s EXCEPT !.length = s.length + count])

\* a writable range that is not cut at the end of the storage
span_range_unclipped(s) ==
    LET position_mut == (s.position + s.length) % current_capacity(s)
    IN  [self |-> s, panic |-> FALSE, start |-> position_mut,
         end |-> position_mut + remaining_mut_without_realloc(s)]

\* the range bytes_mut_impl slices out of the storage once there is room
span_range(s) ==
    LET position_mut == (s.position + s.length) % current_capacity(s)
    IN  [self |-> s, panic |-> FALSE, start |-> position_mut,
         end |-> Min(position_mut + remaining_mut_without_realloc(s),
                     current_capacity(s))]

\* bytes_mut_impl where current_capacity() - length wrapped to
\* 2^64 + current_capacity() - length (no overflow checks): the value is not
\* 0, so nothing grows; position_mut + it wraps back to
\* position_mut + current_capacity() - length when that is not negative, an
\* end below the start (the slice panics), and stays huge otherwise, so
\* that the range ends at current_capacity()
span_range_wrapped(s) ==
    IF current_capacity(s) = 0                     \* remainder by zero
    THEN [self |-> s, panic |-> TRUE, start |-> 0, end |-> 0]
    ELSE LET position_mut == (s.position + s.length) % current_capacity(s)
         IN  IF position_mut + current_capacity(s) - s.length >= 0
             THEN [self |-> s, panic |-> TRUE, start |-> 0, end |-> 0]
             ELSE [self |-> s, panic |-> FALSE, start |-> position_mut,
                   end |-> current_capacity(s)]

\* a span request that grows only a storage that was never allocated
bytes_mut_impl_grow_unallocated(s) ==
    LET g == IF current_capacity(s) = 0
             THEN grow_buffer(s)
             ELSE [self |-> s, panic |-> FALSE,
                   grown |-> remaining_mut_without_realloc(s) > 0]
    IN  IF g.panic \/ ~g.grown \/ current_capacity(g.self) = 0
        THEN [self |-> g.self, panic |-> g.panic, start |-> 0, end |-> 0]
        ELSE span_range(g.self)

\* a span request that grows as soon as a single byte is left free
bytes_mut_impl_grow_early(s) ==
    LET g == IF remaining_mut_without_realloc(s) <= 1
             THEN grow_buffer(s)
             ELSE [self |-> s, panic |-> FALSE, grown |-> TRUE]
    IN  IF g.panic \/ ~g.grown \/ current_capacity(g.self) = 0
        THEN [self |-> g.self, panic |-> g.panic, start |-> 0, end |-> 0]
        ELSE span_range(g.self)

\* outcome with the returned span as the range start..end of the storage
\* (0-based, end exclusive)
bytes_mut_impl(s) ==
    IF sub_overflows(s)
    THEN IF overflow_checks
         THEN [self |-> s, panic |-> TRUE, start |-> 0, end |-> 0]
         ELSE span_range_wrapped(s)
    ELSE
    LET g == IF remaining_mut_without_realloc(s) = 0
             THEN grow_buffer(s)
             ELSE [self |-> s, panic |-> FALSE, grown |-> TRUE]
    IN  IF g.panic
        THEN [self |-> g.self, panic |-> TRUE, start |-> 0, end |-> 0]
        ELSE IF ~g.grown
        THEN [self |-> g.self, panic |-> FALSE, start |-> 0, end |-> 0]
        ELSE IF current_capacity(g.self) = 0    \* remainder by zero
        THEN [self |-> g.self, panic |-> TRUE, start |-> 0, end |-> 0]
        ELSE span_range(g.self)

read_cursor(s) == <<s.position, s.length>>

\* a restore that puts back the position and forgets the length
set_read_cursor_position_only(s, c) == [s EXCEPT !.position = c[1]]

set_read_cursor(s, c) == [s EXCEPT !.position = c[1], !.length = c[2]]

\* the slice bytes() takes is out of range
bytes_panics(s) ==
    s.position > Min(s.position + s.length, current_capacity(s))

\* a readable span that stitches the two pieces of a wraparound together
bytes_stitched(s) ==
    [i \in 1..s.length |->
        s.buffer[((s.position + i - 1) % current_capacity(s)) + 1]]

bytes(s) ==
    SubSeq(s.buffer, s.position + 1,
           Min(s.position + s.length, current_capacity(s)))

\* an advance that does not reset the position of an emptied buffer
advance_no_reset(s, count) ==
    IF ~(count <= remaining(s)) THEN Panic(s)
    ELSE IF current_capacity(s) = 0 THEN Panic(s)
    ELSE Ok([s EXCEPT !.position =
                          (s.position + count) % current_capacity(s),
                      !.length = s.length - count])

advance(s, count) ==
    IF ~(count <= remaining(s)) THEN Panic(s)
    ELSE IF current_capacity(s) = 0 THEN Panic(s)    \* remainder by zero
    ELSE LET p == (s.position + count) % current_capacity(s)
             l == s.length - count
         IN  Ok([s EXCEPT !.position = IF l = 0 THEN 0 ELSE p,
                          !.length = l])

read_exact_into_vec(s, len) ==
    IF ~(len <= remaining(s)) \/ bytes_panics(s)
    THEN [self |-> s, panic |-> TRUE, out |-> <<>>]
    ELSE
    LET first_chunk_size == Min(len, Len(bytes(s)))
        out1 == SubSeq(bytes(s), 1, first_chunk_size)
        a1 == advance(s, first_chunk_size)
        rem == len - first_chunk_size
    IN  IF a1.panic THEN [self |-> a1.self, panic |-> TRUE, out |-> <<>>]
        ELSE IF bytes_panics(a1.self) \/ rem > Len(bytes(a1.self))
        THEN [self |-> a1.self, panic |-> TRUE, out |-> <<>>]
        ELSE LET out2 == SubSeq(bytes(a1.self), 1, rem)
                 a2 == advance(a1.self, rem)
             IN  [self |-> a2.self, panic |-> a2.panic,
                  out |-> IF a2.panic THEN <<>> ELSE out1 \o out2]

\* a soft limit that shrinks as soon as the data fits the limit
apply_soft_limit_eager(s, lim) ==
    LET limit == Min(lim, s.max_capacity)
    IN  IF remaining(s) = 0 /\ current_capacity(s) > limit
        THEN Ok([s EXCEPT !.buffer = <<>>, !.position = 0])
        ELSE IF remaining(s) <= limit /\ current_capacity(s) >= 2 * limit
        THEN resize_buffer(s, limit)
        ELSE Ok(s)

\* a soft limit that shrinks as soon as the capacity exceeds the limit
apply_soft_limit_any_capacity(s, lim) ==
    LET limit == Min(lim, s.max_capacity)
    IN  IF remaining(s) = 0 /\ current_capacity(s) > limit
        THEN Ok([s EXCEPT !.buffer = <<>>, !.position = 0])
        ELSE IF remaining(s) <= limit \div 2 /\ current_capacity(s) > limit
        THEN resize_buffer(s, limit)
        ELSE Ok(s)

apply_soft_limit(s, lim) ==
    LET limit == Min(lim, s.max_capacity)
    IN  IF remaining(s) = 0 /\ current_capacity(s) > limit
        THEN Ok([s EXCEPT !.buffer = <<>>, !.position = 0])
        ELSE IF remaining(s) <= limit \div 2
                /\ current_capacity(s) >= 2 * limit
        THEN resize_buffer(s, limit)
        ELSE Ok(s)

\* a read that advances past the whole contiguous span
read_whole_span(s, n) ==
    IF bytes_panics(s)
    THEN [self |-> s, panic |-> TRUE, count |-> 0, out |-> <<>>]
    ELSE LET len == Min(Len(bytes(s)), n)
             a == advance(s, Len(bytes(s)))
         IN  [self |-> a.self, panic |-> a.panic,
              count |-> IF a.panic THEN 0 ELSE len,
              out |-> IF a.panic THEN <<>> ELSE SubSeq(bytes(s), 1, len)]

\* a read that copies the bytes out and leaves the cursor where it was
read_no_advance(s, n) ==
    IF bytes_panics(s)
    THEN [self |-> s, panic |-> TRUE, count |-> 0, out |-> <<>>]
    ELSE LET len == Min(Len(bytes(s)), n)
             a == advance(s, 0)
         IN  [self |-> a.self, panic |-> a.panic,
              count |-> IF a.panic THEN 0 ELSE len,
              out |-> IF a.panic THEN <<>> ELSE SubSeq(bytes(s), 1, len)]

\* <CircularBuffer as std::io::Read>::read with an output slice of n bytes:
\* count is the returned length, out the bytes copied into output
read(s, n) ==
    IF bytes_panics(s)
    THEN [self |-> s, panic |-> TRUE, count |-> 0, out |-> <<>>]
    ELSE LET len == Min(Len(bytes(s)), n)
             a == advance(s, len)
         IN  [self |-> a.self, panic |-> a.panic,
              count |-> IF a.panic THEN 0 ELSE len,
              out |-> IF a.panic THEN <<>> ELSE SubSeq(bytes(s), 1, len)]

\* the storage after the first k bytes of input were copied to start..
fill(s, start, input, k) ==
    [s EXCEPT !.buffer = [i \in 1..Len(s.buffer) |->
        IF i > start /\ i <= start + k
        THEN input[i - start] ELSE s.buffer[i]]]

\* <CircularBuffer as std::io::Write>::write
write(s, input) ==
    LET m == bytes_mut_impl(s)
    IN  IF m.panic THEN [self |-> m.self, panic |-> TRUE, count |-> 0]
        ELSE LET len == Min(m.end - m.start, Len(input))
                 a == advance_mut_impl(fill(m.self, m.start, input, len), len)
             IN  [self |-> a.self, panic |-> a.panic,
                  count |-> IF a.panic THEN 0 ELSE len]

\* ---------------------------------------------------------------- helpers
\* the unread bytes in FIFO order, read off the storage
Contents(s) ==
    [i \in 1..s.length |->
        s.buffer[((s.position + i - 1) % current_capacity(s)) + 1]]

\* the unread bytes of a buffer whose cursor may have been restored onto a
\* storage without room for it (nothing when there is no storage)
Unread(s) == IF current_capacity(s) = 0 THEN <<>> ELSE Contents(s)

\* the calls that move the read cursor only
ReadSide == {"read_into", "advance_read", "read_exact_into_owned",
             "peek_readable_span", "restore_read_cursor"}

\* the saved cursor after the call name: clean as long as only read-side
\* calls were made since read_cursor() returned it
Touch(name) ==
    IF name \in ReadSide THEN snap ELSE [snap EXCEPT !.clean = FALSE]

\* what the record of a call keeps of the buffer it was made on; reduced:
\* that buffer had just had its capacity reduced by apply_soft_limit
Summary(s, red) == [capacity |-> current_capacity(s), position |-> s.position,
                    length |-> s.length, reduced |-> red]

\* ------------------------------------------------------------------- Init
\* the state after new(a[1], a[2]), written to with a stream of period a[3]
Created(a) ==
    LET b == new(a[1], a[2])
    IN  /\ buffer = b.buffer
        /\ position = b.position
        /\ length = b.length
        /\ max_capacity = b.max_capacity
        /\ initial_capacity = b.initial_capacity
        /\ panicked = FALSE
        /\ op = "new"
        /\ arg = a[1]
        /\ ret = NoRet
        /\ pre = Summary(b, FALSE)
        /\ fifo = <<>>
        /\ nextByte = 0
        /\ period = a[3]
        /\ snap = NoSnap
        /\ overflow_checks = TRUE
        /\ draining = FALSE

Init == \E a \in NewArgs : Created(a)

InitFifo == \E a \in FifoArgs : Created(a)

\* the buffer fields after a call, and the record of the call
Becomes(s, name, a, p, r) ==
    /\ buffer' = s.buffer
    /\ position' = s.position
    /\ length' = s.length
    /\ max_capacity' = s.max_capacity
    /\ initial_capacity' = s.initial_capacity
    /\ panicked' = p
    /\ op' = name
    /\ arg' = a
    /\ ret' = r
    /\ pre' = Summary(Self, op = "apply_soft_limit"
                           /\ Len(buffer) < pre.capacity)
    /\ period' = period
    /\ snap' = Touch(name)
    /\ overflow_checks' = overflow_checks
    /\ draining' = draining

\* ---------------------------------------------------------------- actions
WriteFrom(n) ==
    /\ ~panicked
    /\ LET w == write(Self, Stream(nextByte, n))
       IN  /\ Becomes(w.self, "write_from", n, w.panic,
                      [count |-> w.count, out |-> <<>>])
           /\ fifo' = fifo \o Stream(nextByte, w.count)
           /\ nextByte' = NextIndex(nextByte, w.count)

PeekWritableSpan ==
    /\ ~panicked
    /\ LET m == bytes_mut_impl(Self)
       IN  /\ Becomes(m.self, "peek_writable_span", 0, m.panic,
                      [count |-> m.end - m.start, out |-> <<>>])
           /\ UNCHANGED <<fifo, nextByte>>

\* bytes_mut() and the caller's use of the slice it returns: the caller
\* writes the next k bytes of the stream to the front of the span, k at most
\* the length of the span, before it makes any other call (the slice
\* borrows the buffer); nothing is committed
FillWritableSpan(k) ==
    /\ ~panicked
    /\ LET m == bytes_mut_impl(Self)
       IN  /\ ~m.panic
           /\ k <= m.end - m.start
           /\ Becomes(fill(m.self, m.start, Stream(nextByte, k), k),
                      "fill_writable_span", k, FALSE,
                      [count |-> m.end - m.start, out |-> <<>>])
           /\ UNCHANGED <<fifo, nextByte>>

\* advance_mut(count): two assertions and length += count; the storage is
\* not touched, the unread bytes are from then on what the storage holds
AdvanceWrite(count) ==
    /\ ~panicked
    /\ LET a == advance_mut_impl(Self, count)
       IN  /\ Becomes(a.self, "advance_write", count, a.panic, NoRet)
           /\ fifo' = IF a.panic THEN fifo ELSE Unread(a.self)
           /\ nextByte' = IF a.panic THEN nextByte
                          ELSE NextIndex(nextByte, count)

ReadInto(n) ==
    /\ ~panicked
    /\ LET r == read(Self, n)
       IN  /\ Becomes(r.self, "read_into", n, r.panic,
                      [count |-> r.count, out |-> r.out])
           /\ fifo' = Drop(fifo, r.count)
           /\ UNCHANGED nextByte

AdvanceRead(count) ==
    /\ ~panicked
    /\ LET a == advance(Self, count)
       IN  /\ Becomes(a.self, "advance_read", count, a.panic, NoRet)
           /\ fifo' = IF a.panic THEN fifo ELSE Drop(fifo, count)
           /\ UNCHANGED nextByte

ReadExactIntoOwned(n) ==
    /\ ~panicked
    /\ LET r == read_exact_into_vec(Self, n)
       IN  /\ Becomes(r.self, "read_exact_into_owned", n, r.panic,
                      [count |-> Len(r.out), out |-> r.out])
           /\ fifo' = Drop(fifo, length - r.self.length)
           /\ UNCHANGED nextByte

ApplySoftLimit(limit) ==
    /\ ~panicked
    /\ LET r == apply_soft_limit(Self, limit)
       IN  /\ Becomes(r.self, "apply_soft_limit", limit, r.panic, NoRet)
           /\ UNCHANGED <<fifo, nextByte>>

\* <CircularBuffer as Buf>::bytes: the first contiguous run of unread bytes
PeekReadableSpan ==
    /\ ~panicked
    /\ Becomes(Self, "peek_readable_span", 0, bytes_panics(Self),
               [count |-> IF bytes_panics(Self) THEN 0 ELSE Len(bytes(Self)),
                out |-> IF bytes_panics(Self) THEN <<>> ELSE bytes(Self)])
    /\ UNCHANGED <<fifo, nextByte>>

\* read_cursor(): the caller keeps the cursor (ghost: and what was unread)
ReadCursorSnapshot ==
    /\ ~panicked
    /\ snap' = [taken |-> TRUE, cursor |-> read_cursor(Self),
                contents |-> Unread(Self), clean |-> TRUE]
    /\ op' = "read_cursor_snapshot"
    /\ arg' = 0
    /\ ret' = NoRet
    /\ pre' = Summary(Self, FALSE)
    /\ UNCHANGED <<buffer, position, length, max_capacity, initial_capacity,
                   panicked, fifo, nextByte, period, overflow_checks,
                   draining>>

\* set_read_cursor with the cursor read_cursor() returned earlier; the
\* unread bytes are from then on what the storage holds under that cursor
RestoreReadCursor ==
    /\ ~panicked
    /\ snap.taken
    /\ LET r == set_read_cursor(Self, snap.cursor)
       IN  /\ Becomes(r, "restore_read_cursor", 0, FALSE, NoRet)
           /\ fifo' = Unread(r)
           /\ UNCHANGED nextByte

\* the stream operations: every call but the unchecked two-step write
NextFifo ==
    \/ \E n \in 0..MaxIn : WriteFrom(n)
    \/ PeekReadableSpan
    \/ \E n \in 0..MaxIn : ReadInto(n)
    \/ \E n \in 0..MaxIn : AdvanceRead(n)
    \/ \E n \in 0..MaxIn : ReadExactIntoOwned(n)
    \/ \E l \in 0..MaxLimit : ApplySoftLimit(l)

\* the calls of the read side and of the write side, the two-step write
\* included; read_cursor and set_read_cursor are called in SpecCursor and
\* SpecPeek
Next ==
    \/ \E n \in 0..MaxIn : WriteFrom(n)
    \/ PeekWritableSpan
    \/ \E k \in 1..MaxIn : FillWritableSpan(k)
    \/ \E n \in 0..MaxIn : AdvanceWrite(n)
    \/ PeekReadableSpan
    \/ \E n \in 0..MaxIn : ReadInto(n)
    \/ \E n \in 0..MaxIn : AdvanceRead(n)
    \/ \E n \in 0..MaxIn : ReadExactIntoOwned(n)
    \/ \E l \in 0..MaxLimit : ApplySoftLimit(l)

Spec == Init /\ [][Next]_vars

SpecFifo == InitFifo /\ [][NextFifo]_vars

\* ------------------------------------------------- peek, then roll back
MaxCursorLimit == 2   \* largest soft limit passed between peek and rollback

\* one buffer that grows (3 to 5), shrinks (5 to 2) and is deallocated, in
\* a build with and in a build without overflow checks; the writer writes
\* zero bytes: what is checked here is the cursor and the capacity
InitCursor ==
    LET b == new(3, 5)
    IN  /\ buffer = b.buffer
        /\ position = b.position
        /\ length = b.length
        /\ max_capacity = b.max_capacity
        /\ initial_capacity = b.initial_capacity
        /\ panicked = FALSE
        /\ op = "new"
        /\ arg = 3
        /\ ret = NoRet
        /\ pre = Summary(b, FALSE)
        /\ fifo = <<>>
        /\ nextByte = 0
        /\ period = 0
        /\ snap = NoSnap
        /\ overflow_checks \in BOOLEAN
        /\ draining = FALSE

NextCursor ==
    \/ \E n \in 0..MaxIn : WriteFrom(n)
    \/ \E n \in 0..MaxIn : ReadInto(n)
    \/ \E n \in 0..MaxIn : AdvanceRead(n)
    \/ \E n \in 0..MaxIn : ReadExactIntoOwned(n)
    \/ \E l \in 0..MaxCursorLimit : ApplySoftLimit(l)
    \/ ReadCursorSnapshot
    \/ RestoreReadCursor

SpecCursor == InitCursor /\ [][NextCursor]_vars

\* the peek protocol: the caller saves the cursor, looks ahead with reads
\* and rolls back; it does not roll back once it has written
InitPeek ==
    LET b == new(3, 3)
    IN  /\ buffer = b.buffer
        /\ position = b.position
        /\ length = b.length
        /\ max_capacity = b.max_capacity
        /\ initial_capacity = b.initial_capacity
        /\ panicked = FALSE
        /\ op = "new"
        /\ arg = 3
        /\ ret = NoRet
        /\ pre = Summary(b, FALSE)
        /\ fifo = <<>>
        /\ nextByte = 0
        /\ period = 3
        /\ snap = NoSnap
        /\ overflow_checks = TRUE
        /\ draining = FALSE

RollBack ==
    /\ snap.clean
    /\ RestoreReadCursor

NextPeek ==
    \/ \E n \in 0..MaxIn : WriteFrom(n)
    \/ \E n \in 0..MaxIn : ReadInto(n)
    \/ \E n \in 0..MaxIn : AdvanceRead(n)
    \/ \E n \in 0..MaxIn : ReadExactIntoOwned(n)
    \/ ReadCursorSnapshot
    \/ RollBack

SpecPeek == InitPeek /\ [][NextPeek]_vars

\* ------------------------------------------------- resize called directly
MaxResize == 6        \* largest capacity passed to resize_buffer

\* resize_buffer called the way the module's own test calls it
Resize(new_capacity) ==
    /\ ~panicked
    /\ LET r == resize_buffer(Self, new_capacity)
       IN  /\ Becomes(r.self, "resize", new_capacity, r.panic, NoRet)
           /\ UNCHANGED <<fifo, nextByte>>

InitResize ==
    /\ InitFifo
    /\ max_capacity = 5

NextResize ==
    \/ \E n \in 0..MaxIn : WriteFrom(n)
    \/ \E n \in 0..MaxIn : ReadInto(n)
    \/ \E c \in 0..MaxResize : Resize(c)

SpecResize == InitResize /\ [][NextResize]_vars

\* ------------------------------------------------------ bursts of input
MaxBurst == 5         \* longest input of a burst, above the 4 bytes gained
                      \* by the growth from capacity 4 to capacity 8

\* a buffer that grows twice (4 to 8 to 16); the writer writes zero bytes
InitBurst ==
    LET b == new(4, 16)
    IN  /\ buffer = b.buffer
        /\ position = b.position
        /\ length = b.length
        /\ max_capacity = b.max_capacity
        /\ initial_capacity = b.initial_capacity
        /\ panicked = FALSE
        /\ op = "new"
        /\ arg = 4
        /\ ret = NoRet
        /\ pre = Summary(b, FALSE)
        /\ fifo = <<>>
        /\ nextByte = 0
        /\ period = 0
        /\ snap = NoSnap
        /\ overflow_checks = TRUE
        /\ draining = FALSE

NextBurst ==
    \/ \E n \in 0..MaxBurst : WriteFrom(n)
    \/ PeekWritableSpan
    \/ \E n \in 0..MaxBurst : ReadInto(n)

SpecBurst == InitBurst /\ [][NextBurst]_vars

\* ---------------------------------------------------------------- draining
\* the buffers of at most 5 bytes are written and read, until the writer
\* stops; from then on the reader calls read_into with a non-empty output,
\* again and again
InitDrain ==
    /\ InitFifo
    /\ max_capacity <= 5

Fill(n) ==
    /\ ~draining
    /\ WriteFrom(n)

Consume(n) ==
    /\ ~draining
    /\ ReadInto(n)

\* the last write has been made
StopWriting ==
    /\ ~panicked
    /\ ~draining
    /\ draining' = TRUE
    /\ UNCHANGED <<buffer, position, length, max_capacity, initial_capacity,
                   panicked, op, arg, ret, pre, fifo, nextByte, period,
                   snap, overflow_checks>>

Drain(n) ==
    /\ draining
    /\ ReadInto(n)

NextDrain ==
    \/ \E n \in 0..MaxIn : Fill(n)
    \/ \E n \in 0..MaxIn : Consume(n)
    \/ StopWriting
    \/ \E n \in 1..MaxIn : Drain(n)

\* the reader keeps calling read_into while a call still does something
SpecDrain ==
    /\ InitDrain
    /\ [][NextDrain]_vars
    /\ WF_vars(\E n \in 1..MaxIn : Drain(n))

\* ------------------------------------------------------------------ types
TypeOK ==
    /\ buffer \in Seq(0..3)
    /\ position \in Nat
    /\ length \in Nat
    /\ panicked \in BOOLEAN
    /\ ret.count \in Nat
    /\ Len(fifo) <= 16
    /\ snap.taken \in BOOLEAN
    /\ snap.clean \in BOOLEAN
    /\ overflow_checks \in BOOLEAN
    /\ draining \in BOOLEAN

\* ------------------------------------------------- vocabulary of the claims
\* the n bytes of the stream that end right before stream index k
StreamBefore(k, n) ==
    Stream(IF period = 0 THEN 0 ELSE (k + n * (period - 1)) % period, n)

\* the k bytes of the stream that precede the unread ones: what a read of k
\* bytes that has just returned must have returned
PrecedingBytes(k) == SubSeq(StreamBefore(nextByte, Len(fifo) + k), 1, k)

\* the data wrapped past the end of the storage before the last call
PreWrapped == pre.position + pre.length > pre.capacity

\* length of the contiguous span peek_writable_span grants out of the
\* allocation the last call was made on
PreGranted ==
    IF pre.capacity = pre.length THEN 0
    ELSE LET pm == (pre.position + pre.length) % pre.capacity
         IN  Min(pm + (pre.capacity - pre.length), pre.capacity) - pm

\* ------------------------------------------------------------------ claims

\* C1: after every call, 0 <= length <= current_capacity() <= max_capacity.
CapacityBounds ==
    /\ 0 <= length
    /\ length <= Len(buffer)
    /\ Len(buffer) <= max_capacity

\* C1 witness: a write has grown a full storage up to max_capacity and
\* filled it to the last byte.
CapacityBoundsWitness ==
    /\ op = "write_from"
    /\ pre.capacity < Len(buffer)
    /\ pre.capacity > 0
    /\ Len(buffer) = max_capacity
    /\ length = max_capacity

\* C2: the buffer is a FIFO byte queue.  The unread content is, in order,
\* the bytes accepted and not yet read (the last length bytes of the stream
\* written), and the bytes a read returns are the stream bytes right before
\* them: nothing is lost, duplicated or reordered, whatever growth, shrink
\* or wraparound happened.
FifoOrder ==
    /\ length = Len(fifo)
    /\ Contents(Self) = fifo
    /\ fifo = StreamBefore(nextByte, length)
    /\ (op \in {"read_into", "read_exact_into_owned"}
            => ret.out = PrecedingBytes(ret.count))

\* C2 witness: distinct bytes, a storage grown from 3 to 5, and a read that
\* returned three bytes from both sides of a wraparound.
FifoOrderWitness ==
    /\ op = "read_exact_into_owned"
    /\ ~panicked
    /\ period = 2
    /\ pre.capacity = 5
    /\ initial_capacity = 3
    /\ ret.count = 3
    /\ pre.position + 1 < pre.capacity
    /\ pre.position + ret.count > pre.capacity
    /\ length > 0

\* C3 as stated: a read_into that returns has copied exactly
\* min(output.len(), length) bytes and advanced the cursor by that count.
\* (That the call returns at all is C4's matter.)
ReadIntoCopiesMinOfLengths ==
    (op = "read_into" /\ ~panicked)
        => /\ ret.count = Min(arg, pre.length)
           /\ length = pre.length - ret.count

\* C3 amended: read_into never fails on a buffer that has storage, and a
\* read_into that returns has copied exactly
\* min(output.len(), length, capacity - position) bytes, the first
\* contiguous run of unread bytes cut to the output's size, has returned
\* that count and has advanced the read cursor by it.
ReadIntoCopiesFirstSpan ==
    op = "read_into"
        => /\ pre.capacity > 0 => ~panicked
           /\ ~panicked =>
                LET k == Min(arg, Min(pre.length,
                                      pre.capacity - pre.position))
                IN  /\ ret.count = k
                    /\ ret.out = PrecedingBytes(k)
                    /\ length = pre.length - k
                    /\ position = IF length = 0 \/ pre.capacity = 0 THEN 0
                                  ELSE (pre.position + k) % pre.capacity
                    /\ Len(buffer) = pre.capacity

\* C3 witness: the data wrapped, the output had room for more, and the read
\* returned only the bytes up to the end of the storage.
ReadIntoCopiesFirstSpanWitness ==
    /\ op = "read_into"
    /\ ~panicked
    /\ PreWrapped
    /\ period = 2
    /\ ret.count = pre.capacity - pre.position
    /\ ret.count < arg
    /\ ret.count < pre.length
    /\ position = 0
    /\ length > 0

\* C4: read_into on an empty buffer returns 0, never fails, and leaves the
\* buffer as it was.
ReadIntoEmptyReturnsZero ==
    (op = "read_into" /\ pre.length = 0)
        => /\ ~panicked
           /\ ret.count = 0
           /\ length = 0
           /\ position = pre.position
           /\ Len(buffer) = pre.capacity

\* C5: write_from returns a count <= min(input.len(), max_capacity - length);
\* for a non-empty input the count is 0 exactly when length = max_capacity.
WriteFromProgress ==
    op = "write_from"
        => /\ ~panicked
           /\ ret.count <= Min(arg, max_capacity - pre.length)
           /\ length = pre.length + ret.count
           /\ arg >= 1 => (ret.count = 0 <=> pre.length = max_capacity)

\* C5 witness: a non-empty write on a full allocation below the ceiling grew
\* the storage and accepted bytes.
WriteFromProgressWitness ==
    /\ op = "write_from"
    /\ arg >= 1
    /\ pre.length = pre.capacity
    /\ pre.length > 0
    /\ pre.length < max_capacity
    /\ ret.count >= 1
    /\ Len(buffer) > pre.capacity

\* C6: a growth takes the capacity to
\* min(max_capacity, max(2 * old, max(8, initial_capacity))), with
\* initial_capacity the capacity given to new clamped to max_capacity; from
\* new(0, 16) the first bytes written give capacity 8, a write on the full
\* capacity 8 gives capacity 16, and a write on 16 unread bytes returns 0.
GrowthCapacity ==
    /\ op = "new" => initial_capacity = Min(arg, max_capacity)
    /\ Len(buffer) > pre.capacity
        => Len(buffer) =
             Min(max_capacity,
                 Max(2 * pre.capacity,
                     Max(MINIMUM_NON_EMPTY_CAPACITY, initial_capacity)))
    /\ (op = "write_from" /\ initial_capacity = 0 /\ max_capacity = 16)
        => /\ (pre.capacity = 0 /\ arg >= 1)
                => (Len(buffer) = 8 /\ ret.count = arg)
           /\ (pre.capacity = 8 /\ pre.length = 8 /\ arg >= 1)
                => (Len(buffer) = 16 /\ ret.count = arg)
           /\ pre.length = 16 => (ret.count = 0 /\ Len(buffer) = 16)

\* C6 witness: new(0, 16), eight unread bytes in capacity 8, and a write
\* that doubled the capacity to 16.
GrowthCapacityWitness ==
    /\ op = "write_from"
    /\ initial_capacity = 0
    /\ max_capacity = 16
    /\ pre.capacity = 8
    /\ pre.length = 8
    /\ Len(buffer) = 16
    /\ ret.count >= 1

\* C7: with limit' = min(limit, max_capacity), apply_soft_limit deallocates
\* (capacity 0) an empty buffer whose capacity exceeds limit'; else shrinks
\* to exactly limit' when length <= limit'/2 and capacity >= 2 * limit';
\* else changes nothing.  The unread bytes and length stay, the capacity
\* never increases.
SoftLimitCases ==
    op = "apply_soft_limit"
        => LET lim == Min(arg, max_capacity)
           IN  /\ ~panicked
               /\ length = pre.length
               /\ Contents(Self) = fifo
               /\ Len(buffer) <= pre.capacity
               /\ IF pre.length = 0 /\ pre.capacity > lim
                  THEN Len(buffer) = 0
                  ELSE IF 2 * pre.length <= lim /\ pre.capacity >= 2 * lim
                  THEN Len(buffer) = lim
                  ELSE Len(buffer) = pre.capacity /\ position = pre.position

\* C7 witness: a non-empty buffer whose data did not start at index 0 was
\* shrunk to the limit.
SoftLimitCasesWitness ==
    /\ op = "apply_soft_limit"
    /\ period = 2
    /\ length > 0
    /\ pre.position > 0
    /\ Len(buffer) = arg
    /\ Len(buffer) < pre.capacity

\* C8 as stated: the non-empty write_from that follows an apply_soft_limit
\* that reduced the capacity, with hard capacity remaining, does not change
\* the capacity again.
WriteAfterReductionKeepsCapacity ==
    (op = "write_from" /\ arg >= 1 /\ pre.reduced
       /\ pre.length < max_capacity)
        => Len(buffer) = pre.capacity

\* C8 amended: the non-empty write_from that follows an apply_soft_limit
\* that shrank a non-empty buffer is served from the current allocation and
\* does not change the capacity; the one that follows the deallocation of an
\* empty buffer finds capacity 0 and grows the storage again.
WriteAfterShrinkKeepsCapacity ==
    (op = "write_from" /\ arg >= 1 /\ pre.reduced)
        => IF pre.length > 0
           THEN /\ ~panicked
                /\ ret.count >= 1
                /\ Len(buffer) = pre.capacity
           ELSE /\ pre.capacity = 0
                /\ Len(buffer) > 0

\* C8 witness: a write right after the shrink of a non-empty buffer was
\* served without a change of capacity.
WriteAfterShrinkKeepsCapacityWitness ==
    /\ op = "write_from"
    /\ arg >= 1
    /\ pre.reduced
    /\ pre.length > 0
    /\ ret.count >= 1
    /\ Len(buffer) = pre.capacity

\* C9: advance_write(count) fails, without advancing, whenever count exceeds
\* the contiguous span peek_writable_span granted or max_capacity - length,
\* and succeeds, adding count to length, only when count is within the span.
AdvanceWriteWithinGrant ==
    op = "advance_write"
        => /\ panicked <=> (arg > PreGranted
                              \/ arg > max_capacity - pre.length)
           /\ ~panicked => length = pre.length + arg
           /\ panicked => length = pre.length

\* C10: read_exact_into_owned(n) with n <= remaining_readable() succeeds in
\* every state, returns the first n unread bytes in order and leaves the
\* other length - n bytes unread in their order.
ReadExactReturnsFirstBytes ==
    (op = "read_exact_into_owned" /\ arg <= pre.length)
        => /\ ~panicked
           /\ ret.count = arg
           /\ ret.out = PrecedingBytes(arg)
           /\ length = pre.length - arg
           /\ Contents(Self) = fifo

\* C11: peek, then roll back.  When restore_read_cursor is called with the
\* cursor read_cursor_snapshot returned and only read-side calls (read_into,
\* advance_read, read_exact_into_owned) were made in between, position,
\* length and the unread byte sequence are what they were at the snapshot,
\* also when the reads drained the buffer and reset position to 0.
PeekRollBackRoundTrip ==
    (op = "restore_read_cursor" /\ snap.clean)
        => /\ ~panicked
           /\ position = snap.cursor[1]
           /\ length = snap.cursor[2]
           /\ length <= Len(buffer)
           /\ Contents(Self) = snap.contents
           /\ snap.contents = StreamBefore(nextByte, length)

\* C11 witness: the snapshot was taken on data that wrapped, the reads
\* drained the buffer (position reset to 0), and the roll back put three
\* distinct bytes back.
PeekRollBackRoundTripWitness ==
    /\ op = "restore_read_cursor"
    /\ snap.clean
    /\ pre.length = 0
    /\ pre.position = 0
    /\ position > 0
    /\ position + length > Len(buffer)
    /\ length = 3

\* C17: right after restore_read_cursor, called with a cursor
\* read_cursor_snapshot returned earlier, the buffer satisfies the
\* data-model invariants, whatever was called in between (growth, shrink
\* and deallocation included): length <= current_capacity() <=
\* max_capacity, length = 0 implies position = 0, and position is inside
\* the storage when there is one.
RestoreKeepsInvariants ==
    op = "restore_read_cursor"
        => /\ length <= Len(buffer)
           /\ Len(buffer) <= max_capacity
           /\ length = 0 => position = 0
           /\ Len(buffer) > 0 => position < Len(buffer)

\* C12: a step resize(new_capacity) with new_capacity >= length and
\* new_capacity # current_capacity() leaves a storage of exactly
\* new_capacity with position 0 and the same unread bytes in the same order,
\* all of them in one piece; a step resize(current_capacity()) changes
\* neither the storage, nor the position, nor the length; so the second of
\* two resize calls with the same argument changes nothing.
ResizeRelocates ==
    [][op' = "resize" =>
         /\ arg' = Len(buffer)
              => /\ ~panicked'
                 /\ UNCHANGED <<buffer, position, length>>
         /\ (arg' # Len(buffer) /\ arg' >= length)
              => /\ ~panicked'
                 /\ Len(buffer') = arg'
                 /\ position' = 0
                 /\ length' = length
                 /\ SubSeq(buffer', 1, length') = Contents(Self)
                 /\ fifo' = Contents(Self)
         /\ (op = "resize" /\ ~panicked /\ arg' = arg)
              => UNCHANGED <<buffer, position, length>>]_vars

\* C12 witness: a resize to another capacity has relocated two distinct
\* bytes that wrapped past the end of the storage.
ResizeRelocatesWitness ==
    /\ op = "resize"
    /\ ~panicked
    /\ PreWrapped
    /\ arg # pre.capacity
    /\ Len(buffer) = arg
    /\ position = 0
    /\ length >= 2
    /\ buffer[1] # buffer[2]

\* C13: canonical empty state.  In every state reached through write_from,
\* peek_writable_span, advance_write, the reads and apply_soft_limit,
\* length = 0 implies position = 0; a read that consumes the last unread
\* byte leaves position 0 wherever the data was.
CanonicalEmpty == length = 0 => position = 0

\* C13 witness: the data wrapped past the end of the storage and one read
\* call consumed all of it.
CanonicalEmptyWitness ==
    /\ op \in {"advance_read", "read_exact_into_owned"}
    /\ ~panicked
    /\ PreWrapped
    /\ pre.position > 0
    /\ arg = pre.length
    /\ length = 0
    /\ position = 0

\* C14: peek_readable_span returns exactly the unread bytes at the indices
\* position .. min(position + length, capacity): the span is empty iff
\* length = 0, it is all the unread data when the data does not wrap, and
\* when the data wraps it is only the capacity - position bytes up to the
\* end of the storage; the bytes past the wrap are in the span once
\* advance_read has consumed up to the end of the storage, and not before.
ReadableSpanIsFirstRun ==
    LET run == Min(length, Len(buffer) - position)
    IN  /\ ~bytes_panics(Self)
        /\ bytes(Self) = SubSeq(fifo, 1, run)
        /\ bytes(Self) = <<>> <=> length = 0
        /\ position + length <= Len(buffer) => bytes(Self) = fifo
        /\ position + length > Len(buffer)
             => Len(bytes(Self)) = Len(buffer) - position
        /\ op = "peek_readable_span"
             => /\ ~panicked
                /\ ret.out = bytes(Self)
                /\ ret.count = run
                /\ Summary(Self, pre.reduced) = pre
        /\ (op = "advance_read" /\ ~panicked /\ PreWrapped)
             => IF arg >= pre.capacity - pre.position
                THEN position + length <= Len(buffer) /\ bytes(Self) = fifo
                ELSE Len(bytes(Self)) = pre.capacity - pre.position - arg

\* C14 witness: the data wrapped and the span handed out was only the
\* bytes up to the end of the storage, fewer than are unread.
ReadableSpanIsFirstRunWitness ==
    /\ op = "peek_readable_span"
    /\ period = 2
    /\ position > 0
    /\ position + length > Len(buffer)
    /\ ret.count = Len(buffer) - position
    /\ ret.count >= 2
    /\ ret.count < length

\* the indices of the storage (0-based) that hold unread data
UnreadIndices(s) ==
    {(s.position + j) % current_capacity(s) : j \in 0..(s.length - 1)}

\* C15: in every reachable state the span peek_writable_span returns, when
\* it is not empty, starts at (position + length) mod capacity (position
\* and capacity as they are after the growth the call may do), lies inside
\* the storage and shares no index with the unread data, so that the bytes
\* a caller writes into it leave the unread bytes as they are; it is empty
\* iff length = max_capacity.
WritableSpanIsFree ==
    LET m == bytes_mut_impl(Self)
        cap == current_capacity(m.self)
    IN  /\ ~m.panic
        /\ m.self.length = length
        /\ m.end > m.start
             => m.start = (m.self.position + length) % cap
        /\ 0 <= m.start /\ m.start <= m.end /\ m.end <= cap
        /\ \A i \in m.start..(m.end - 1) : i \notin UnreadIndices(m.self)
        /\ m.end = m.start <=> length = max_capacity
        /\ op \in {"peek_writable_span", "fill_writable_span"}
             => /\ ~panicked
                /\ length = pre.length
                /\ ret.count = 0 <=> pre.length = max_capacity
        /\ op = "fill_writable_span"
             => /\ arg <= ret.count
                /\ Contents(Self) = fifo

\* C15 witness: a span was handed out that ends at the end of the storage
\* although more bytes are free, the others lying before the unread data.
WritableSpanIsFreeWitness ==
    /\ op = "peek_writable_span"
    /\ ~panicked
    /\ length > 0
    /\ position > 0
    /\ ret.count > 0
    /\ ret.count < Len(buffer) - length
    /\ position + length + ret.count = Len(buffer)

\* C16: advance_read(count) fails iff count > length; for every
\* count <= length, count 0 and capacity 0 included, it succeeds, takes
\* count off length and sets position to (position + count) mod capacity,
\* or to 0 when nothing is left unread, and leaves the capacity as it was.
AdvanceReadFailsIffPastLength ==
    op = "advance_read"
        => /\ panicked <=> arg > pre.length
           /\ Len(buffer) = pre.capacity
           /\ ~panicked
                => /\ length = pre.length - arg
                   /\ position = IF length = 0 THEN 0
                                 ELSE (pre.position + arg) % pre.capacity

\* C18: growth happens only on a full allocation.  A write_from or
\* peek_writable_span made while length < current_capacity() leaves capacity
\* and position as they were, and one write_from changes the capacity at
\* most once: the capacity after the call is the old one or one growth step
\* from it, and an input longer than the room after that step is cut to it.
GrowthOnlyWhenFull ==
    op \in {"write_from", "peek_writable_span"}
        => /\ ~panicked
           /\ pre.length < pre.capacity
                => (Len(buffer) = pre.capacity /\ position = pre.position)
           /\ Len(buffer) # pre.capacity
                => /\ pre.length = pre.capacity
                   /\ Len(buffer) =
                        Min(max_capacity,
                            Max(2 * pre.capacity,
                                Max(MINIMUM_NON_EMPTY_CAPACITY,
                                    initial_capacity)))
           /\ op = "write_from"
                => /\ ret.count <= Min(arg, Len(buffer) - pre.length)
                   /\ Len(buffer) # pre.capacity
                        => ret.count = Min(arg, Len(buffer) - pre.length)

\* C18 witness: five bytes written to a full capacity 4 below the ceiling:
\* the storage grew once, to 8, and four of the five bytes were taken.
GrowthOnlyWhenFullWitness ==
    /\ op = "write_from"
    /\ pre.capacity = 4
    /\ pre.length = 4
    /\ arg = 5
    /\ Len(buffer) = 8
    /\ Len(buffer) < max_capacity
    /\ ret.count = 4

\* C19: the buffer's own calls never break the precondition
\* new_capacity >= length of resize.  As stated: in every reachable state
\* grow() does not panic and either returns false, changing nothing, exactly
\* when length = max_capacity, or returns true having strictly raised the
\* capacity; and apply_soft_limit never panics and leaves a capacity
\* >= length.
GrowRaisesOrRefuses ==
    LET g == grow_buffer(Self)
    IN  /\ ~g.panic
        /\ grow_capacity(Self) >= length
        /\ ~g.grown <=> length = max_capacity
        /\ ~g.grown => g.self = Self
        /\ g.grown
             => /\ current_capacity(g.self) > Len(buffer)
                /\ current_capacity(g.self) <= max_capacity
                /\ g.self.length = length
        /\ op \in {"write_from", "peek_writable_span", "apply_soft_limit"}
             => ~panicked
        /\ op = "apply_soft_limit"
             => (length <= Len(buffer) /\ Len(buffer) <= pre.capacity)

\* C19, amended: in every reachable state grow() does not panic, asks
\* resize for a capacity >= length, and returns false, changing nothing,
\* exactly when length = max_capacity.  A grow() that returns true has
\* strictly raised the capacity, keeping length and the unread bytes, iff
\* the capacity was below max_capacity; on a storage that already has
\* max_capacity bytes and is not full it returns true and changes nothing
\* (a resize to the same capacity).  The operations call grow() only on a
\* full allocation, where returning true means the capacity was raised:
\* write_from and peek_writable_span change the capacity only by raising
\* that of a full allocation.  apply_soft_limit never panics and leaves a
\* capacity >= length.
ResizePreconditionKept ==
    LET g == grow_buffer(Self)
    IN  /\ ~g.panic
        /\ grow_capacity(Self) >= length
        /\ ~g.grown <=> length = max_capacity
        /\ ~g.grown => g.self = Self
        /\ (g.grown /\ Len(buffer) < max_capacity)
             => /\ current_capacity(g.self) > Len(buffer)
                /\ current_capacity(g.self) <= max_capacity
                /\ g.self.length = length
                /\ Unread(g.self) = Unread(Self)
        /\ (g.grown /\ Len(buffer) = max_capacity)
             => (length < max_capacity /\ g.self = Self)
        /\ (g.grown /\ remaining_mut_without_realloc(Self) = 0)
             => current_capacity(g.self) > Len(buffer)
        /\ (op \in {"write_from", "peek_writable_span", "fill_writable_span"}
              /\ Len(buffer) # pre.capacity)
             => (pre.length = pre.capacity /\ Len(buffer) > pre.capacity)
        /\ op \in {"write_from", "peek_writable_span", "apply_soft_limit"}
             => ~panicked
        /\ op = "apply_soft_limit"
             => (length <= Len(buffer) /\ Len(buffer) <= pre.capacity)

\* C19 witness: a write on a full allocation below the ceiling, whose data
\* did not start at index 0, grew the storage to max_capacity and did not
\* fill it: a grow() in this state returns true and changes nothing.
ResizePreconditionKeptWitness ==
    /\ op = "write_from"
    /\ pre.length = pre.capacity
    /\ pre.position > 0
    /\ pre.capacity < max_capacity
    /\ Len(buffer) = max_capacity
    /\ length > pre.length
    /\ length < max_capacity
    /\ grow_buffer(Self).grown
    /\ grow_buffer(Self).self = Self

\* C20: draining terminates.  Every read_into with a non-empty output on a
\* non-empty buffer returns at least one byte and shortens the unread data,
\* and once no write is made any more, repeated read_into calls lead to
\* length = 0, with position = 0.
DrainingTerminates ==
    /\ [](op = "read_into" /\ arg >= 1 /\ pre.length >= 1
            => /\ ~panicked
               /\ ret.count >= 1
               /\ length = pre.length - ret.count)
    /\ (draining ~> (length = 0 /\ position = 0))

\* C20 witness: while draining, a read on data that wrapped past the end of
\* the storage came back short of its output and left bytes unread.
DrainingTerminatesWitness ==
    /\ draining
    /\ op = "read_into"
    /\ PreWrapped
    /\ ret.count >= 1
    /\ ret.count < arg
    /\ length >= 1
    /\ position = 0
====
